---- MODULE Spec2Model ----
(***************************************************************************)
(* Model of the frame-presentation engine of nIce-Game:                    *)
(*   Window / EventsLoop   (src/src/window.rs)                             *)
(*   SpriteBatch           (src/src/batch/sprite.rs)                       *)
(*   DeviceCtx             (src/src/device.rs)                             *)
(* One Window ("win") owning a swapchain, one further render target        *)
(* ("other") with its own identity root, one SpriteBatch, and the          *)
(* EventsLoop with a second window ("peer") in its tracking table.         *)
(* Spec: every call in every order; SpecFrame: commands only from inside   *)
(* get_commands; SpecEvents: event delivery and present; SpecJoin: the     *)
(* joining of chains; SpecFonts: get_font called from several threads.     *)
(* Sequences are 1-based: slot i of the model is image_num i-1 of the code.*)
(* An Option<T> is a sequence of length 0 (None) or 1 (Some).              *)
(***************************************************************************)
EXTENDS Integers, Sequences, FiniteSets, TLC

\* ---------------------------------------------------------------- bounds
NumImages == 2
NumDims == 2
MaxEpoch == 1
MaxFrames == 2
MaxExt == 1
NumSprites == 1
NumChains == 3
NumThreads == 2
NumKeys == 2
MaxFonts == 3

Targets == {"win", "other"}
Windows == {"win", "peer"}
Threads == 1..NumThreads
Keys == 1..NumKeys
Slots == 1..NumImages
Dims == 1..NumDims

VARIABLES
    swapchain,            \* Window.swapchain: [epoch, dim]
    images,               \* RenderTarget::images() of each target
    previous_frame_end,   \* Window.previous_frame_end : Option<chain>
    resized,              \* Window.resized (shared with EventsLoop.resized)
    pc,                   \* "idle" | "build", "finish" (inside present) | "crashed"
    image_num,            \* slot acquired by the present call in progress
    future,               \* the chain get_commands is working on
    frame,                \* number of frames submitted so far
    nextExt,              \* number of external chains handed to join_future
    batch,                \* the SpriteBatch
    ev,                   \* the call that has just returned: what it started
                          \* from, what it did and what it returned
    lastCall,             \* per slot: the previous commands call for it
    degraded,             \* the last present call returned skipping its frame
    lastStored,           \* chain stored by the last submitted frame
    droppedSince,         \* a frame was dropped at finalization since then
    tracking,             \* EventsLoop.resized: the windows that have an entry
    peer,                 \* resize flag of the second window
    fonts,                \* DeviceCtx.fonts: key -> Weak<Font> (None: no entry)
    fonts_lock,           \* owner of the Mutex around fonts, 0 when free
    held,                 \* per thread: the Arc<Font> it owns
    th,                   \* per thread: its get_font call in progress
    nextFont              \* number of fonts loaded so far

winv == <<swapchain, images, previous_frame_end, resized, pc, image_num,
          future, frame, nextExt>>
batchv == <<batch>>
histv == <<ev, lastCall, degraded, lastStored, droppedSince>>
evlv == <<tracking, peer>>
fontv == <<fonts, fonts_lock, held, th, nextFont>>
vars == <<winv, batchv, histv, evlv, fontv>>

\* ------------------------------------------------------- future chains
\* A GpuFuture is a tree: a leaf operation, a.join(b), a.then_execute(cmd),
\* or a.then_swapchain_present(..).then_signal_fence_and_flush().
Tok(kind, n) == [kind |-> kind, n |-> n, l |-> <<>>]

Join(a, b) == [kind |-> "join", n |-> <<>>, l |-> <<a, b>>]

ThenExecute(a, cmd) == [kind |-> "exec", n |-> cmd.desc, l |-> <<a>>]

ThenPresentFence(a, f) == [kind |-> "fence", n |-> <<f>>, l |-> <<a>>]

\* the operations a chain waits for
RECURSIVE Ops(_)
Ops(c) ==
    (IF c.kind = "join" THEN {} ELSE {<<c.kind, c.n>>})
        \cup UNION {Ops(c.l[k]) : k \in 1..Len(c.l)}

\* a chain has completed when its own operation and all it was built on have
RECURSIVE Completed(_, _)
Completed(c, done) ==
    /\ c.kind # "join" => <<c.kind, c.n>> \in done
    /\ \A k \in 1..Len(c.l) : Completed(c.l[k], done)

RECURSIVE Contains(_, _)
Contains(c, d) ==
    \/ c = d
    \/ \E k \in 1..Len(c.l) : Contains(c.l[k], d)

\* ------------------------------------------------------ target images
\* An image is identified by the swapchain that created it and its slot;
\* its dimensions are those of that swapchain.
Image(epoch, slot, dim) == [epoch |-> epoch, slot |-> slot, dim |-> dim]

SwapchainImages(sc) == [s \in Slots |-> Image(sc.epoch, s, sc.dim)]

\* the images of the other render target (never recreated)
OtherImages == [s \in Slots |-> Image(-1, s, 1)]

\* ObjectIdRoot of a render target and the ids it issues
id_root(t) == t

make_id(root) == [root |-> root]

is_child_of(id, root) == id.root = root

\* ------------------------------------------------------------ history
EvNone ==
    [op |-> "none", ret |-> "none", target |-> "none", slot |-> 0,
     hit |-> FALSE, fb |-> <<>>, upload |-> <<>>, drawn |-> 0,
     fbAlloc |-> FALSE, descAlloc |-> FALSE, desc |-> <<>>,
     stage |-> "none", recreate |-> "none", acquire |-> "none", flush |-> "none",
     event |-> "none", window |-> "none", callback |-> FALSE,
     fail |-> "none", cmd |-> <<>>, tried |-> <<>>, acquired |-> 0,
     pre |-> <<>>]

\* the state a call starts from
Snapshot ==
    <<[swapchain |-> swapchain, images |-> images,
       previous_frame_end |-> previous_frame_end, resized |-> resized,
       future |-> future, frame |-> frame, batch |-> batch,
       lastCall |-> lastCall, degraded |-> degraded,
       lastStored |-> lastStored, droppedSince |-> droppedSince,
       tracking |-> tracking, peer |-> peer]>>

Called(op) == [EvNone EXCEPT !.op = op, !.pre = Snapshot]

\* ----------------------------------------------------------- DeviceCtx
\* a Font loaded for the key (path, scale); n tells the loads apart
Font(k, n) == [key |-> k, id |-> n]

\* every font a run can load
Fonts == {Font(k, n) : k \in Keys, n \in 1..MaxFonts}

\* a thread that is not inside get_font
NoCall ==
    [pc |-> "idle", key |-> 0, ret |-> <<>>, ok |-> FALSE, loaded |-> FALSE,
     cache0 |-> <<>>, live0 |-> {}, cache1 |-> <<>>]

\* -------------------------------------------------------- SpriteBatch
\* Strong owners of an image: the target's image sequence, and every cached
\* framebuffer (Framebuffer::start(..).add(image.clone()) keeps the clone).
Alive(b, img) ==
    \/ \E t \in Targets : \E s \in Slots : images[t][s] = img
    \/ \E s \in Slots : b.framebuffers[s].framebuffer.image = img

\* Weak::upgrade
upgrade(b, weak) == IF Alive(b, weak) THEN <<weak>> ELSE <<>>

\* Framebuffer::start(render_pass).add(image.clone()).build(): a new object,
\* distinct from the framebuffer `old` it is about to replace and from every
\* earlier one (an image identity never comes back)
BuildFramebuffer(image, old) ==
    [id |-> <<image.epoch, image.slot,
              IF old.image = image THEN old.id[3] + 1 ELSE 1>>,
     image |-> image, dim |-> image.dim]

InitialFramebuffer(image) ==
    [id |-> <<image.epoch, image.slot, 1>>, image |-> image, dim |-> image.dim]

\* ImageFramebuffer::new(Arc::downgrade(&image), framebuffer)
ImageFramebuffer(image, fb) == [image |-> image, framebuffer |-> fb]

\* the descriptor holding [width, height], named after the framebuffer it was
\* built for; its upload future is Tok("upload", id)
make_target_desc(id, dim) == [id |-> id, dim |-> dim]

\* SpriteBatch::new(window, target, shared), then add_sprite n times
NewBatch(t, imgs, n) ==
    [target_id |-> make_id(id_root(t)),
     sprites |-> n,
     framebuffers |->
        [s \in Slots |-> ImageFramebuffer(imgs[s], InitialFramebuffer(imgs[s]))],
     target_desc |-> make_target_desc(<<0, 0, 0>>, imgs[1].dim)]

\* the assertion left out
TargetGuard_unchecked(b, t) == TRUE

\* assert!(self.target_id.is_child_of(target.id_root()))
TargetGuard(b, t) == is_child_of(b.target_id, id_root(t))

\* the lookup without the Arc::ptr_eq filter: any live image is accepted
CacheLookup_anyLive(b, t, i) ==
    IF upgrade(b, b.framebuffers[i].image) # <<>>
    THEN <<b.framebuffers[i].framebuffer>>
    ELSE <<>>

\* the lookup comparing with the image of slot 0 whatever image_num is
CacheLookup_slot0(b, t, i) ==
    LET old_image == upgrade(b, b.framebuffers[i].image) IN
    IF old_image # <<>> /\ images[t][1] = old_image[1]
    THEN <<b.framebuffers[i].framebuffer>>
    ELSE <<>>

\* the cached framebuffer of slot i, if its image is alive and is the image
\* now in slot i of the target
CacheLookup(b, t, i) ==
    LET old_image == upgrade(b, b.framebuffers[i].image) IN
    IF old_image # <<>> /\ images[t][i] = old_image[1]
    THEN <<b.framebuffers[i].framebuffer>>
    ELSE <<>>

\* the rebuilt framebuffer is used but never stored
StoreEntry_forgotten(b, i, image, fb) == b

\* self.framebuffers[image_num] = ImageFramebuffer::new(weak, framebuffer)
StoreEntry(b, i, image, fb) ==
    [b EXCEPT !.framebuffers[i] = ImageFramebuffer(image, fb)]

\* the descriptor is rebuilt only when the dimensions differ from its own
RebuildDesc_onlyIfDiffers(b, fb) ==
    IF fb.dim # b.target_desc.dim
    THEN [b EXCEPT !.target_desc = make_target_desc(fb.id, fb.dim)]
    ELSE b

\* self.target_desc = make_target_desc(.., framebuffer.width(), framebuffer.height())
RebuildDesc(b, fb) ==
    [b EXCEPT !.target_desc = make_target_desc(fb.id, fb.dim)]

Result(b, ret, hit, fb, upload, cmd, drawn, fbAlloc, descAlloc, tried) ==
    [batch |-> b, ret |-> ret, hit |-> hit, fb |-> fb, upload |-> upload,
     cmd |-> cmd, drawn |-> drawn, fbAlloc |-> fbAlloc, descAlloc |-> descAlloc,
     tried |-> tried]

\* the constructions a call attempts, in order: <<"fb", 0>>, <<"desc", 0>>,
\* <<"cb", 0>>, <<"sprite", k>> for the k-th drawable, <<"build", 0>>
Sprites(n) == [k \in 1..n |-> <<"sprite", k>>]

\* the call ends with the command buffer built
Recorded(b, fb, upload, hit, tried) ==
    Result(b, "Ok", hit, <<fb>>, upload,
           <<[fb |-> fb.id, desc |-> b.target_desc.id, dim |-> fb.dim,
              draws |-> b.sprites]>>,
           b.sprites, ~hit, ~hit,
           tried \o <<<<"cb", 0>>>> \o Sprites(b.sprites) \o <<<<"build", 0>>>>)

\* a failed command buffer allocation is attempted again and the call goes on
Record_retry(b, fb, upload, hit, fail) ==
    LET tried == IF hit THEN <<>> ELSE <<<<"fb", 0>>, <<"desc", 0>>>> IN
    Recorded(b, fb, upload, hit,
             IF fail = "cb" THEN tried \o <<<<"cb", 0>>>> ELSE tried)

\* recording of the command buffer, after the framebuffer is known
Record(b, fb, upload, hit, fail) ==
    LET miss == ~hit
        tried == IF hit THEN <<>> ELSE <<<<"fb", 0>>, <<"desc", 0>>>>
    IN
    IF fail = "cb"
    THEN Result(b, "Oom", hit, <<fb>>, <<>>, <<>>, 0, miss, miss,
                tried \o <<<<"cb", 0>>>>)
    ELSE IF fail = "sprite"
    THEN Result(b, "Oom", hit, <<fb>>, <<>>, <<>>, 1, miss, miss,
                tried \o <<<<"cb", 0>>>> \o Sprites(1))
    ELSE IF fail = "build"
    THEN Result(b, "Oom", hit, <<fb>>, <<>>, <<>>, b.sprites, miss, miss,
                tried \o <<<<"cb", 0>>>> \o Sprites(b.sprites) \o <<<<"build", 0>>>>)
    ELSE Recorded(b, fb, upload, hit, tried)

\* SpriteBatch::commands(window, target, image_num); fail names the
\* construction that runs out of memory in this call, if any
commands(b, t, i, fail) ==
    IF ~TargetGuard(b, t)
    THEN Result(b, "panic", FALSE, <<>>, <<>>, <<>>, 0, FALSE, FALSE, <<>>)
    ELSE
    LET framebuffer == CacheLookup(b, t, i) IN
    IF framebuffer # <<>>
    THEN Record(b, framebuffer[1], <<>>, TRUE, fail)
    ELSE IF fail = "fb"
    THEN Result(b, "Oom", FALSE, <<>>, <<>>, <<>>, 0, FALSE, FALSE, <<<<"fb", 0>>>>)
    ELSE
    LET fb == BuildFramebuffer(images[t][i], b.framebuffers[i].framebuffer)
        b1 == StoreEntry(b, i, images[t][i], fb)
    IN
    IF fail = "desc"
    THEN Result(b1, "Oom", FALSE, <<fb>>, <<>>, <<>>, 0, TRUE, FALSE,
                <<<<"fb", 0>>, <<"desc", 0>>>>)
    ELSE
    LET b2 == RebuildDesc(b1, fb) IN
    Record(b2, fb, <<Tok("upload", fb.id)>>, FALSE, fail)

FailPoints == {"none", "fb", "desc", "cb", "sprite", "build"}

\* the out-of-memory failures a call can meet
CanFail(b, t, i, fail) ==
    /\ fail \in {"fb", "desc"} => TargetGuard(b, t) /\ CacheLookup(b, t, i) = <<>>
    /\ fail = "sprite" => b.sprites > 0
    /\ fail # "none" => TargetGuard(b, t)

\* -------------------------------------------------------------- Window
NoFuture == Tok("none", <<>>)

\* the new chain replaces the pending one
join_future_adopt(pending, c) == <<c>>

\* the new chain is dropped when a chain is pending
join_future_keepPending(pending, c) ==
    IF pending # <<>> THEN pending ELSE <<c>>

\* Window::join_future: join with the pending chain, or adopt
join_future(pending, c) ==
    IF pending # <<>> THEN <<Join(pending[1], c)>> ELSE <<c>>

\* swapchain.recreate_with_dimension(dimensions)
Recreate(sc, dim) == [epoch |-> sc.epoch + 1, dim |-> dim]

\* the pending chain is read but left in its slot
Take_left(pending) == pending

\* what Option::take leaves in self.previous_frame_end
Take(pending) == <<>>

\* the frame starts from the acquisition future alone
TakePending_alone(pending, acquire_future) == acquire_future

\* previous_frame_end.take(), joined with the acquisition future
TakePending(pending, acquire_future) ==
    IF pending # <<>> THEN Join(pending[1], acquire_future) ELSE acquire_future

Init ==
    /\ swapchain = [epoch |-> 0, dim |-> 1]
    /\ images = [t \in Targets |->
                    IF t = "win" THEN SwapchainImages([epoch |-> 0, dim |-> 1])
                    ELSE OtherImages]
    /\ previous_frame_end = <<>>
    /\ resized = FALSE
    /\ pc = "idle"
    /\ image_num = 0
    /\ future = NoFuture
    /\ frame = 0
    /\ nextExt = 0
    /\ batch = NewBatch("win", images["win"], NumSprites)
    /\ ev = EvNone
    /\ lastCall = [s \in Slots |-> <<>>]
    /\ degraded = FALSE
    /\ lastStored = <<>>
    /\ droppedSince = FALSE
    /\ tracking = Windows
    /\ peer = FALSE
    /\ fonts = [k \in Keys |-> <<>>]
    /\ fonts_lock = 0
    /\ held = [t \in Threads |-> {}]
    /\ th = [t \in Threads |-> NoCall]
    /\ nextFont = 0

\* EventsLoop::poll_events delivering WindowEvent::Resized for the window
EventResized ==
    /\ ev.op = "none"
    /\ pc = "idle"
    /\ "win" \in tracking
    /\ resized' = TRUE
    /\ ev' = [Called("poll_events") EXCEPT !.event = "Resized", !.window = "win",
                                           !.callback = TRUE]
    /\ UNCHANGED <<swapchain, images, previous_frame_end, pc, image_num, future,
                   frame, nextExt, batchv, lastCall, degraded, lastStored, droppedSince,
                   evlv, fontv>>

\* Window::join_future(chain), from the frame loop or from inside get_commands
JoinFuture ==
    /\ ev.op = "none"
    /\ pc # "crashed"
    /\ nextExt < MaxExt
    /\ nextExt' = nextExt + 1
    /\ previous_frame_end' = join_future(previous_frame_end, Tok("ext", <<nextExt + 1>>))
    /\ ev' = Called("join_future")
    /\ UNCHANGED <<swapchain, images, resized, pc, image_num, future, frame,
                   batchv, lastCall, degraded, lastStored, droppedSince, evlv, fontv>>

\* history of the commands calls for a slot: the image that was in the slot
\* and the framebuffer the call used
NextCall(img, r) == [img |-> img, fb |-> r.fb]

\* SpriteBatch::commands(window, t, i-1), called from the frame loop or from
\* inside get_commands; there the caller joins the upload future and the
\* command buffer into the frame's chain (examples/mesh main.rs) and returns
Commands(t, i, fail) ==
    /\ ev.op = "none"
    /\ pc \in {"idle", "build"}
    /\ pc = "build" => i = image_num
    /\ CanFail(batch, t, i, fail)
    /\ LET r == commands(batch, t, i, fail) IN
        /\ batch' = r.batch
        /\ pc' = IF r.ret = "panic" THEN "crashed"
                 ELSE IF pc = "build" /\ r.ret = "Ok" THEN "finish"
                 ELSE pc
        /\ future' = IF pc = "build" /\ r.ret = "Ok"
                     THEN ThenExecute(IF r.upload # <<>> THEN Join(future, r.upload[1])
                                      ELSE future, r.cmd[1])
                     ELSE future
        /\ ev' = [Called("commands") EXCEPT !.ret = r.ret, !.target = t,
                                !.slot = i, !.hit = r.hit, !.fb = r.fb,
                                !.upload = r.upload, !.drawn = r.drawn,
                                !.fbAlloc = r.fbAlloc, !.descAlloc = r.descAlloc,
                                !.desc = r.batch.target_desc.id,
                                !.fail = fail, !.cmd = r.cmd, !.tried = r.tried]
        /\ lastCall' = IF r.ret = "panic" THEN lastCall
                       ELSE [lastCall EXCEPT ![i] = <<NextCall(images[t][i], r)>>]
    /\ UNCHANGED <<swapchain, images, previous_frame_end, resized, image_num,
                   frame, nextExt, degraded, lastStored, droppedSince, evlv, fontv>>

\* the outcomes the code handles; every other error is unreachable!()
RecreateOutcomes == {"Ok", "UnsupportedDimensions"}
AcquireOutcomes == {"Ok", "OutOfDate"}
FlushOutcomes == {"Ok", "OutOfDate"}

\* the flag stays cleared by the swap
RecreateUnsupported_flagLost(w) == w

\* Err(SwapchainCreationError::UnsupportedDimensions): re-set the flag, return Ok
RecreateUnsupported(w) == [w EXCEPT !.resized = TRUE]

\* the pending chain was taken before the acquisition and is dropped
AcquireOutOfDate_dropsPending(w) ==
    [w EXCEPT !.resized = TRUE, !.previous_frame_end = <<>>]

\* the flag is not set
AcquireOutOfDate_flagLost(w) == w

\* Err(AcquireError::OutOfDate): set the flag, return Ok
AcquireOutOfDate(w) == [w EXCEPT !.resized = TRUE]

\* Window::present up to the call of get_commands.
\* rec: outcome of recreate_with_dimension ("none" when the flag is clear),
\* dim: the extent queried, acq: outcome of acquire_next_image, num: its slot
present_begin(rec, dim, acq, num) ==
    LET flag == resized                       \* self.resized.swap(false, ..)
        cur == [swapchain |-> swapchain, images |-> images,
                previous_frame_end |-> previous_frame_end, resized |-> FALSE,
                pc |-> "idle", image_num |-> 0, future |-> NoFuture, frame |-> frame,
                ret |-> "Ok", recreate |-> rec, acquire |-> "none"]
    IN
    IF flag /\ rec = "UnsupportedDimensions"
    THEN RecreateUnsupported(cur)
    ELSE
    LET w == IF flag
             THEN [cur EXCEPT !.swapchain = Recreate(swapchain, dim),
                              !.images = [images EXCEPT
                                  !["win"] = SwapchainImages(Recreate(swapchain, dim))]]
             ELSE cur
    IN
    IF acq = "OutOfDate"
    THEN [AcquireOutOfDate(w) EXCEPT !.acquire = acq]
    ELSE [w EXCEPT !.acquire = acq,
                   !.future = TakePending(previous_frame_end, Tok("acq", <<frame + 1>>)),
                   !.previous_frame_end = Take(previous_frame_end),
                   !.pc = "build", !.image_num = num,
                   !.ret = "none"]

PresentBegin(rec, dim, acq, num) ==
    /\ ev.op = "none"
    /\ pc = "idle"
    /\ IF resized THEN rec \in RecreateOutcomes ELSE rec = "none"
    \* inputs the call does not read are fixed
    /\ rec # "Ok" => dim = swapchain.dim
    /\ IF resized /\ rec = "UnsupportedDimensions" THEN acq = "none"
       ELSE acq \in AcquireOutcomes
    /\ acq # "Ok" => num = 1
    /\ rec = "Ok" => swapchain.epoch < MaxEpoch
    /\ acq = "Ok" => frame < MaxFrames
    /\ LET w == present_begin(rec, dim, acq, num) IN
        /\ swapchain' = w.swapchain
        /\ images' = w.images
        /\ previous_frame_end' = w.previous_frame_end
        /\ resized' = w.resized
        /\ pc' = w.pc
        /\ image_num' = w.image_num
        /\ future' = w.future
        /\ frame' = w.frame
        /\ ev' = [Called(IF w.pc = "build" THEN "get_commands" ELSE "present")
                     EXCEPT !.stage = "begin", !.ret = w.ret,
                            !.acquired = IF acq = "Ok" THEN num ELSE 0,
                            !.recreate = w.recreate, !.acquire = w.acquire]
        /\ degraded' = (w.pc = "idle")
    /\ UNCHANGED <<nextExt, batchv, lastCall, lastStored, droppedSince, evlv, fontv>>

\* the flag is cleared once more when the frame has been submitted
FlushOk_clearsFlag(chain) ==
    [previous_frame_end |-> <<chain>>, resized |-> FALSE]

\* Ok(future): the flushed chain becomes the pending chain
FlushOk(chain) ==
    [previous_frame_end |-> <<chain>>, resized |-> resized]

\* the chain of the failed frame is stored all the same
FlushOutOfDate_keepsChain(chain) ==
    [previous_frame_end |-> <<chain>>, resized |-> TRUE]

\* Err(FlushError::OutOfDate): set the flag and return before the assignment
FlushOutOfDate(chain) ==
    [previous_frame_end |-> previous_frame_end, resized |-> TRUE]

\* Window::present after get_commands has returned the frame's chain
present_end(flush) ==
    LET chain == ThenPresentFence(future, frame + 1) IN
    IF flush = "Ok" THEN FlushOk(chain) ELSE FlushOutOfDate(chain)

PresentEnd(flush) ==
    /\ ev.op = "none"
    /\ pc \in {"build", "finish"}
    /\ LET w == present_end(flush) IN
        /\ previous_frame_end' = w.previous_frame_end
        /\ resized' = w.resized
        /\ lastStored' = IF flush = "Ok" THEN w.previous_frame_end ELSE lastStored
    /\ pc' = "idle"
    /\ ev' = [Called("present") EXCEPT !.stage = "end", !.ret = "Ok",
                                       !.flush = flush]
    /\ degraded' = (flush = "OutOfDate")
    /\ droppedSince' = (flush = "OutOfDate")
    /\ frame' = IF flush = "Ok" THEN frame + 1 ELSE frame
    /\ image_num' = 0
    /\ future' = NoFuture
    /\ UNCHANGED <<swapchain, images, nextExt, batchv, lastCall, evlv, fontv>>

\* control goes on from the call that has just returned: to the next
\* statement of the frame loop, or into get_commands
Continue ==
    /\ ev.op # "none"
    /\ ev' = EvNone
    /\ UNCHANGED <<winv, batchv, lastCall, degraded, lastStored, droppedSince, evlv, fontv>>

Next ==
    \/ Continue
    \/ EventResized
    \/ JoinFuture
    \/ \E t \in Targets, i \in Slots, fail \in FailPoints : Commands(t, i, fail)
    \/ \E rec \in RecreateOutcomes \cup {"none"}, dim \in Dims,
          acq \in AcquireOutcomes \cup {"none"}, num \in Slots :
              PresentBegin(rec, dim, acq, num)
    \/ \E flush \in FlushOutcomes : PresentEnd(flush)

Spec == Init /\ [][Next]_vars

\* --------------------------------------------------- the frame loop
\* the program as the frame loop of examples/mesh drives it: the batch is
\* asked for commands only from inside get_commands
NextFrame ==
    \/ Continue
    \/ EventResized
    \/ JoinFuture
    \/ \E t \in Targets, i \in Slots, fail \in FailPoints :
          pc = "build" /\ Commands(t, i, fail)
    \/ \E rec \in RecreateOutcomes \cup {"none"}, dim \in Dims,
          acq \in AcquireOutcomes \cup {"none"}, num \in Slots :
              PresentBegin(rec, dim, acq, num)
    \/ \E flush \in FlushOutcomes : PresentEnd(flush)

SpecFrame == Init /\ [][NextFrame]_vars

\* ------------------------------------------------- joining of chains
\* the chains a caller owns: NumChains independent operations
JoinLeaves == {Tok("ext", <<k>>) : k \in 1..NumChains}

\* what a caller can hand to join_future: one of its chains, or two of them
\* it has joined itself with GpuFuture::join
Groups ==
    JoinLeaves \cup ({Join(a, b) : a, b \in JoinLeaves} \ {Join(a, a) : a \in JoinLeaves})

\* the caller's chains that are part of chain c (of no chain if c is None)
LeavesOf(c) == IF c = <<>> THEN {} ELSE {l \in JoinLeaves : Contains(c[1], l)}

\* Window::join_future(c) for any chain c the caller still owns (a GpuFuture
\* is moved into the call, so no chain is handed twice)
JoinChain(c) ==
    /\ ev.op = "none"
    /\ pc \in {"idle", "build"}
    /\ LeavesOf(<<c>>) \cap (LeavesOf(previous_frame_end) \cup LeavesOf(<<future>>)) = {}
    /\ previous_frame_end' = join_future(previous_frame_end, c)
    /\ nextExt' = nextExt + Cardinality(LeavesOf(<<c>>))
    /\ ev' = Called("join_future")
    /\ UNCHANGED <<swapchain, images, resized, pc, image_num, future, frame,
                   batchv, lastCall, degraded, lastStored, droppedSince, evlv, fontv>>

NextJoin ==
    \/ Continue
    \/ \E c \in Groups : JoinChain(c)
    \/ \E rec \in RecreateOutcomes \cup {"none"}, dim \in Dims,
          acq \in AcquireOutcomes \cup {"none"}, num \in Slots :
              PresentBegin(rec, dim, acq, num)

SpecJoin == Init /\ [][NextJoin]_vars

\* ------------------------------------------------------------- events
EventKinds == {"Resized", "Closed", "Other"}

\* the resize flag of every window; the table entry of a window is its flag
Flags == [w \in Windows |-> IF w = "win" THEN resized ELSE peer]

Handled(tr, flags, ret, callback) ==
    [tracking |-> tr, flags |-> flags, ret |-> ret, callback |-> callback]

\* EventsLoop::poll_events handling one event e of window w: the match on
\* the event, then callback(event)
poll_events(tr, flags, e, w) ==
    IF e = "Closed"
    THEN Handled(tr \ {w}, flags, "Ok", TRUE)           \* resized.remove(&window_id)
    ELSE IF e = "Resized"
    THEN IF w \in tr
         THEN Handled(tr, [flags EXCEPT ![w] = TRUE], "Ok", TRUE)
         ELSE Handled(tr, flags, "panic", FALSE)          \* resized[&window_id]: no entry
    ELSE Handled(tr, flags, "Ok", TRUE)

PollEvent(e, w) ==
    /\ ev.op = "none"
    /\ pc # "crashed"
    /\ LET r == poll_events(tracking, Flags, e, w) IN
        /\ tracking' = r.tracking
        /\ resized' = r.flags["win"]
        /\ peer' = r.flags["peer"]
        /\ pc' = IF r.ret = "panic" THEN "crashed" ELSE pc
        /\ ev' = [Called("poll_events") EXCEPT !.event = e, !.window = w,
                                               !.ret = r.ret, !.callback = r.callback]
    /\ UNCHANGED <<swapchain, images, previous_frame_end, image_num, future,
                   frame, nextExt, batchv, lastCall, degraded, lastStored, droppedSince, fontv>>

\* Window::present of the second window: it swaps its flag to false and sets
\* it again iff it skips its frame
PeerPresent(skip) ==
    /\ ev.op = "none"
    /\ pc = "idle"
    /\ peer' = skip
    /\ ev' = [Called("present") EXCEPT !.window = "peer", !.ret = "Ok"]
    /\ UNCHANGED <<winv, batchv, lastCall, degraded, lastStored, droppedSince, tracking, fontv>>

NextEvents ==
    \/ Continue
    \/ \E e \in EventKinds, w \in Windows : PollEvent(e, w)
    \/ \E skip \in BOOLEAN : PeerPresent(skip)
    \/ \E rec \in RecreateOutcomes \cup {"none"}, dim \in Dims,
          acq \in AcquireOutcomes \cup {"none"}, num \in Slots :
              PresentBegin(rec, dim, acq, num)
    \/ \E flush \in FlushOutcomes : PresentEnd(flush)

SpecEvents == Init /\ [][NextEvents]_vars


\* ------------------------------------------------------ DeviceCtx::get_font
\* the fonts that have a strong owner (an Arc<Font> held by some thread)
LiveFonts == UNION {held[t] : t \in Threads}

\* Weak<Font>::upgrade
font_upgrade(weak, live) == IF weak \in live THEN <<weak>> ELSE <<>>

\* fonts.get(&path_scale).and_then(|font| font.upgrade())
lookup(cache, k, live) ==
    IF cache[k] # <<>> THEN font_upgrade(cache[k][1], live) ELSE <<>>

\* Mutex::lock returns once no other thread holds the guard
MutexFree_unguarded(owner) == TRUE
MutexFree(owner) == owner = 0

\* a thread calls get_font(path, scale)
GetFont(t, k) ==
    /\ th[t].pc = "idle"
    /\ th' = [th EXCEPT ![t] = [NoCall EXCEPT !.pc = "lock", !.key = k]]
    /\ UNCHANGED <<fonts, fonts_lock, held, nextFont>>
    /\ UNCHANGED <<winv, batchv, histv, evlv>>

\* let mut fonts = self.fonts.lock().unwrap();
Lock(t) ==
    /\ th[t].pc = "lock"
    /\ MutexFree(fonts_lock)
    /\ fonts_lock' = t
    /\ th' = [th EXCEPT ![t].pc = "lookup"]
    /\ UNCHANGED <<fonts, held, nextFont>>
    /\ UNCHANGED <<winv, batchv, histv, evlv>>

\* the cached entry is looked up and upgraded; a live font is the result
Lookup(t) ==
    /\ th[t].pc = "lookup"
    /\ LET found == lookup(fonts, th[t].key, LiveFonts)
           seen == [th[t] EXCEPT !.cache0 = <<fonts>>, !.live0 = LiveFonts]
       IN  IF found # <<>>
           THEN /\ held' = [held EXCEPT ![t] = @ \cup {found[1]}]
                /\ th' = [th EXCEPT ![t] =
                              [seen EXCEPT !.pc = "return", !.ret = found,
                                           !.ok = TRUE]]
           ELSE /\ held' = held
                /\ th' = [th EXCEPT ![t] = [seen EXCEPT !.pc = "load"]]
    /\ UNCHANGED <<fonts, fonts_lock, nextFont>>
    /\ UNCHANGED <<winv, batchv, histv, evlv>>

\* unwrap_or_else: Font::from_file, and on Ok the insert of its downgrade
Load(t, ok) ==
    /\ th[t].pc = "load"
    /\ IF ok
       THEN /\ nextFont < MaxFonts
            /\ LET new == Font(th[t].key, nextFont + 1)
               IN  /\ fonts' = [fonts EXCEPT ![th[t].key] = <<new>>]
                   /\ held' = [held EXCEPT ![t] = @ \cup {new}]
                   /\ th' = [th EXCEPT ![t].pc = "return", ![t].ret = <<new>>,
                                       ![t].ok = TRUE, ![t].loaded = TRUE]
            /\ nextFont' = nextFont + 1
       ELSE /\ th' = [th EXCEPT ![t].pc = "return", ![t].ret = <<>>,
                                ![t].ok = FALSE, ![t].loaded = TRUE]
            /\ UNCHANGED <<fonts, held, nextFont>>
    /\ UNCHANGED fonts_lock
    /\ UNCHANGED <<winv, batchv, histv, evlv>>

\* the end of get_font: the guard is dropped and the result returned
Return(t) ==
    /\ th[t].pc = "return"
    /\ fonts_lock' = 0
    /\ th' = [th EXCEPT ![t].pc = "done", ![t].cache1 = <<fonts>>]
    /\ UNCHANGED <<fonts, held, nextFont>>
    /\ UNCHANGED <<winv, batchv, histv, evlv>>

\* the caller goes on with the font it was given
Resume(t) ==
    /\ th[t].pc = "done"
    /\ th' = [th EXCEPT ![t] = NoCall]
    /\ UNCHANGED <<fonts, fonts_lock, held, nextFont>>
    /\ UNCHANGED <<winv, batchv, histv, evlv>>

\* a thread drops an Arc<Font> it owns
DropFont(t, f) ==
    /\ th[t].pc = "idle"
    /\ f \in held[t]
    /\ held' = [held EXCEPT ![t] = @ \ {f}]
    /\ UNCHANGED <<fonts, fonts_lock, th, nextFont>>
    /\ UNCHANGED <<winv, batchv, histv, evlv>>

NextFonts ==
    \/ \E t \in Threads, k \in Keys : GetFont(t, k)
    \/ \E t \in Threads : Lock(t)
    \/ \E t \in Threads : Lookup(t)
    \/ \E t \in Threads, ok \in BOOLEAN : Load(t, ok)
    \/ \E t \in Threads : Return(t)
    \/ \E t \in Threads : Resume(t)
    \/ \E t \in Threads, f \in Fonts : DropFont(t, f)

SpecFonts == Init /\ [][NextFonts]_vars


\* ================================================================ claims
\* the state the call that has just returned started from
Pre == ev.pre[1]

OtherSlot(i) == CHOOSE s \in Slots : s # i

IsCommands(e) == e.op = "commands" /\ e.ret # "panic"

\* C1: the framebuffer a commands call uses for slot i (cached or freshly
\* built) was built from the image that is in slot i of the target now, never
\* from an image of an earlier sequence or of another slot.
C1_CacheIdentity ==
    (ev.op = "commands" /\ ev.fb # <<>>) =>
        ev.fb[1].image = images[ev.target][ev.slot]

\* a rebuild after a recreation, while the other slot still caches a
\* framebuffer of the old sequence
C1_Witness ==
    /\ IsCommands(ev) /\ ~ev.hit /\ ev.ret = "Ok"
    /\ swapchain.epoch >= 1
    /\ batch.framebuffers[OtherSlot(ev.slot)].image # images["win"][OtherSlot(ev.slot)]

\* the previous commands call for the slot of the call that has just returned
PrevCall == Pre.lastCall[ev.slot]

\* the image in the slot is the one the previous commands call for it saw
SameImageAsLastCall ==
    /\ IsCommands(ev)
    /\ PrevCall # <<>>
    /\ PrevCall[1].img = images[ev.target][ev.slot]

\* C2 as stated: if the image of slot i did not change between two consecutive
\* commands calls for slot i, the second is a hit, allocates nothing, returns
\* no upload chain and uses the framebuffer of the first.
C2_Original ==
    SameImageAsLastCall =>
        /\ ev.hit /\ ~ev.fbAlloc /\ ev.upload = <<>>
        /\ ev.fb = PrevCall[1].fb

\* C2 amended: the same, provided the first of the two calls got a framebuffer
\* (it did not fail in framebuffer construction); and the entries of different
\* slots are different framebuffers.
C2_NoRedundantRebuild ==
    (SameImageAsLastCall /\ PrevCall[1].fb # <<>>) =>
        /\ ev.hit /\ ~ev.fbAlloc /\ ~ev.descAlloc /\ ev.upload = <<>>
        /\ ev.fb = PrevCall[1].fb
        /\ batch = Pre.batch
        /\ \A s \in Slots \ {ev.slot} :
              batch.framebuffers[s].framebuffer # batch.framebuffers[ev.slot].framebuffer

\* a hit on the last slot's rebuilt framebuffer after the other slot was used
C2_Witness ==
    /\ SameImageAsLastCall /\ ev.hit /\ ev.slot = NumImages
    /\ ev.fb[1].image.epoch >= 1
    /\ lastCall[1] # <<>> /\ lastCall[1][1].img = images["win"][1]

\* the first commands call for its slot since the image of the slot was replaced
FirstCallInEpoch ==
    /\ IsCommands(ev) /\ swapchain.epoch >= 1
    /\ PrevCall = <<>> \/ PrevCall[1].img # images[ev.target][ev.slot]

LaterCallInEpoch ==
    /\ IsCommands(ev) /\ swapchain.epoch >= 1
    /\ PrevCall # <<>> /\ PrevCall[1].img = images[ev.target][ev.slot]

\* C3 as stated: after a recreation the first commands call for a slot is a
\* miss that rebuilds the framebuffer and every later call is a hit.
C3_Original ==
    /\ FirstCallInEpoch => ~ev.hit /\ ev.fbAlloc
    /\ LaterCallInEpoch => ev.hit

\* C3 amended: after a recreation the first call for a slot is a miss; a miss
\* whose framebuffer construction succeeds stores the first framebuffer built
\* from that image; after it every call for the slot is a hit that allocates
\* nothing; a descriptor is only allocated together with a framebuffer.
C3_RebuildOncePerEpoch ==
    /\ FirstCallInEpoch => ~ev.hit
    /\ (LaterCallInEpoch /\ PrevCall[1].fb # <<>>) =>
          ev.hit /\ ~ev.fbAlloc /\ ~ev.descAlloc
    /\ (LaterCallInEpoch /\ PrevCall[1].fb = <<>>) => ~ev.hit
    /\ (IsCommands(ev) /\ ev.fbAlloc) =>
          /\ ev.fb[1].id[3] = 1
          /\ batch.framebuffers[ev.slot].framebuffer = ev.fb[1]
    /\ (IsCommands(ev) /\ ev.descAlloc) => ev.fbAlloc

\* both slots rebuilt once after the recreation, then a hit
C3_Witness ==
    /\ LaterCallInEpoch /\ ev.hit
    /\ \A s \in Slots : /\ batch.framebuffers[s].image = images["win"][s]
                        /\ lastCall[s] # <<>>
                        /\ lastCall[s][1].img = images["win"][s]

\* C5: a commands call for a target whose identity root did not issue the
\* batch's target id fails before anything else: the batch is unchanged, no
\* framebuffer or descriptor is built and no drawable is invoked.
C5_CrossTargetGuard ==
    (ev.op = "commands" /\ Pre.batch.target_id.root # id_root(ev.target)) =>
        /\ ev.ret = "panic" /\ pc = "crashed"
        /\ batch = Pre.batch
        /\ ~ev.fbAlloc /\ ~ev.descAlloc /\ ev.fb = <<>> /\ ev.upload = <<>>
        /\ ev.drawn = 0

C5_Witness ==
    /\ ev.op = "commands" /\ ev.target = "other" /\ ev.ret = "panic"
    /\ pc = "crashed" /\ batch.sprites > 0

IsPresentReturn(e) == e.op = "present" /\ e.ret = "Ok"

\* C4: when acquisition reports out-of-date, present returns success, the
\* pending chain is what it was before the call, and get_commands is not called.
C4_AcquireSkipKeepsPending ==
    (ev.stage = "begin" /\ ev.acquire = "OutOfDate") =>
        /\ IsPresentReturn(ev) /\ pc = "idle"
        /\ previous_frame_end = Pre.previous_frame_end
        /\ future = Pre.future /\ frame = Pre.frame

C4_Witness ==
    /\ ev.stage = "begin" /\ ev.acquire = "OutOfDate"
    /\ Pre.previous_frame_end # <<>> /\ Pre.previous_frame_end[1].kind = "fence"

\* C6: when the flag is set and recreation fails with unsupported extent,
\* present returns success with the flag set again; swapchain, images and the
\* pending chain are unchanged, no image is acquired, get_commands is not called.
C6_DeferredRecreation ==
    (ev.stage = "begin" /\ ev.recreate = "UnsupportedDimensions") =>
        /\ Pre.resized
        /\ IsPresentReturn(ev) /\ pc = "idle"
        /\ resized
        /\ swapchain = Pre.swapchain /\ images = Pre.images
        /\ previous_frame_end = Pre.previous_frame_end
        /\ ev.acquire = "none" /\ future = Pre.future /\ frame = Pre.frame

C6_Witness ==
    /\ ev.stage = "begin" /\ ev.recreate = "UnsupportedDimensions"
    /\ Pre.previous_frame_end # <<>> /\ swapchain.epoch >= 1

\* every leaf of the chain is a chain that was handed to join_future
RECURSIVE OnlyExternal(_)
OnlyExternal(c) ==
    /\ c.kind \in {"ext", "join"}
    /\ \A k \in 1..Len(c.l) : OnlyExternal(c.l[k])

\* C7 as stated: when finalization reports out-of-date, present returns
\* success, sets the flag, and the surface has no pending chain on return.
C7_Original ==
    (ev.stage = "end" /\ ev.flush = "OutOfDate") =>
        /\ IsPresentReturn(ev) /\ resized
        /\ previous_frame_end = <<>>

\* C7 amended: present stores nothing: on return the pending slot holds what
\* get_commands left in it through join_future (nothing if it made no such
\* call), never the failed frame's chain or the chain pending before the call.
C7_DroppedFrame ==
    (ev.stage = "end" /\ ev.flush = "OutOfDate") =>
        /\ IsPresentReturn(ev) /\ resized /\ pc = "idle"
        /\ previous_frame_end = Pre.previous_frame_end
        /\ previous_frame_end # <<>> => OnlyExternal(previous_frame_end[1])
        /\ lastStored = Pre.lastStored

\* a frame dropped at finalization that had taken a pending chain
C7_Witness ==
    /\ ev.stage = "end" /\ ev.flush = "OutOfDate"
    /\ previous_frame_end = <<>> /\ lastStored # <<>> /\ resized
    /\ Contains(Pre.future, lastStored[1])

Skipped(e) ==
    /\ e.op = "present"
    /\ \/ e.recreate = "UnsupportedDimensions"
       \/ e.acquire = "OutOfDate"
       \/ e.flush = "OutOfDate"

\* C8: a present call that skips its frame for a stale condition returns
\* success with the flag set, and the next present call attempts a recreation
\* before it acquires an image.
C8_DegradedNotSticky ==
    /\ Skipped(ev) => ev.ret = "Ok" /\ resized /\ pc = "idle" /\ degraded
    /\ (ev.stage = "begin" /\ Pre.degraded) =>
          /\ Pre.resized /\ ev.recreate \in {"Ok", "UnsupportedDimensions"}
          /\ ev.recreate = "UnsupportedDimensions" => ev.acquire = "none"
          /\ ev.recreate = "Ok" => swapchain.epoch = Pre.swapchain.epoch + 1
    /\ (ev.op # "none" /\ Pre.degraded /\ ~degraded) => ev.stage = "begin"

\* the call after a skipped call recreated the swapchain and acquired an image
C8_Witness ==
    /\ ev.stage = "begin" /\ Pre.degraded
    /\ ev.recreate = "Ok" /\ ev.acquire = "Ok" /\ pc = "build"

Submitted(e) == e.stage = "end" /\ e.flush = "Ok"

\* C9 as stated: the chain submitted for a frame contains the chain stored by
\* the previous submitted frame, whatever present calls came in between.
C9_Original ==
    (Submitted(ev) /\ Pre.lastStored # <<>>) =>
        Contains(previous_frame_end[1], Pre.lastStored[1])

\* C9 amended: the same, provided no present call between the two frames was
\* dropped at finalization (calls skipped at recreation or acquisition may
\* have come in between).
C9_CrossFrameOrdering ==
    (Submitted(ev) /\ Pre.lastStored # <<>> /\ ~Pre.droppedSince) =>
        /\ previous_frame_end = <<ThenPresentFence(Pre.future, frame)>>
        /\ Contains(Pre.future, Pre.lastStored[1])
        /\ Ops(Pre.lastStored[1]) \subseteq Ops(previous_frame_end[1])

\* the second submitted frame, with a recreation since the first
C9_Witness ==
    /\ Submitted(ev) /\ Pre.lastStored # <<>> /\ ~Pre.droppedSince
    /\ previous_frame_end[1].n = <<2>>
    /\ <<"fence", <<1>>>> \in Ops(previous_frame_end[1].l[1])
    /\ swapchain.epoch >= 1

\* C10: after join_future(c) there is a pending chain: the join of the chain P
\* that was pending and c, complete only when both are, or c itself when none
\* was pending; flag, swapchain and images are unchanged.
C10_JoinOrAdopt ==
    ev.op = "join_future" =>
        LET c == Tok("ext", <<nextExt>>) IN
        /\ previous_frame_end # <<>>
        /\ Pre.previous_frame_end = <<>> => previous_frame_end[1] = c
        /\ Pre.previous_frame_end # <<>> =>
              LET P == Pre.previous_frame_end[1]
                  J == previous_frame_end[1]
              IN /\ J.kind = "join" /\ J.l = <<P, c>>
                 /\ Completed(J, Ops(P) \cup Ops(c))
                 /\ ~Completed(J, Ops(P)) /\ ~Completed(J, Ops(c))
        /\ resized = Pre.resized /\ swapchain = Pre.swapchain /\ images = Pre.images

C10_Witness ==
    /\ ev.op = "join_future"
    /\ previous_frame_end # <<>> /\ previous_frame_end[1].kind = "join"
    /\ previous_frame_end[1].l[1].kind = "fence"

\* the operations whose completion a joined chain can depend on
ChainLeaves == JoinLeaves \cup {Tok("acq", <<f>>) : f \in 1..MaxFrames}

\* chain c has completed under `done` iff every chain joined into it has
AllPartsCompleted(c, done) ==
    \A l \in ChainLeaves : Contains(c, l) => <<l.kind, l.n>> \in done

IsPollEvents(e) == e.op = "poll_events"

\* the flags of the windows other than w are what they were before the call
OtherFlagsKept(w) == \A v \in Windows \ {w} : Flags[v] = (IF v = "win" THEN Pre.resized ELSE Pre.peer)

\* C12: a Resized event for window w sets the flag of w and of no other
\* window, a Closed event for w removes the entry of w from the table and
\* changes no flag, any other event changes neither the table nor a flag;
\* every event is then handed to the callback.
C12_Original ==
    IsPollEvents(ev) =>
        /\ ev.callback
        /\ OtherFlagsKept(ev.window)
        /\ ev.event = "Resized" => Flags[ev.window] /\ tracking = Pre.tracking
        /\ ev.event = "Closed" =>
              /\ tracking = Pre.tracking \ {ev.window}
              /\ OtherFlagsKept("none")
        /\ ev.event = "Other" => tracking = Pre.tracking /\ OtherFlagsKept("none")

\* the same for the events of a window that has its entry in the table
C12_WhenTracked ==
    (IsPollEvents(ev) /\ (ev.event = "Resized" => ev.window \in Pre.tracking)) =>
        C12_Original

\* a miss that got its new framebuffer
IsMissWithFramebuffer == IsCommands(ev) /\ ~ev.hit /\ ev.fb # <<>>

\* C13 as stated: on a miss the descriptor is rebuilt, and an upload chain
\* returned, only when the dimensions of the new framebuffer differ from those
\* of the existing descriptor; otherwise the descriptor is kept.
C13_Original ==
    (IsMissWithFramebuffer /\ ev.fb[1].dim = Pre.batch.target_desc.dim) =>
        /\ ~ev.descAlloc /\ ev.upload = <<>>
        /\ batch.target_desc = Pre.batch.target_desc

\* C13 amended: a miss that goes on past the construction of its framebuffer
\* builds a new descriptor from the dimensions of that framebuffer, the same
\* or not, and returns its upload chain if the call succeeds; the descriptor
\* changes in no other call, and no other call returns an upload chain.
C13_DescriptorRebuiltOnMiss ==
    IsCommands(ev) =>
        /\ ev.descAlloc =>
              /\ IsMissWithFramebuffer
              /\ batch.target_desc.id = ev.fb[1].id
              /\ batch.target_desc.dim = ev.fb[1].dim
              /\ batch.target_desc # Pre.batch.target_desc
        /\ (IsMissWithFramebuffer /\ ev.ret = "Ok") =>
              ev.descAlloc /\ ev.upload = <<Tok("upload", batch.target_desc.id)>>
        /\ ~ev.descAlloc => batch.target_desc = Pre.batch.target_desc
        /\ (ev.hit \/ ev.ret # "Ok") => ev.upload = <<>>

\* a miss whose new framebuffer has the dimensions of the existing descriptor
C13_Witness ==
    /\ IsMissWithFramebuffer /\ ev.ret = "Ok" /\ ev.upload # <<>>
    /\ ev.fb[1].dim = Pre.batch.target_desc.dim
    /\ swapchain.epoch >= 1

\* the images the surfaces own
SurfaceImages == {images[t][k] : t \in Targets, k \in Slots}

\* C14: an image is strongly owned by the surface only, a cache entry never
\* keeps one alive: every image that is alive is an image of a surface, and
\* once a recreation has replaced the images the weak reference of every entry
\* not rebuilt since fails to resolve.
C14_Original ==
    \A s \in Slots :
        LET weak == batch.framebuffers[s].image IN
        /\ Alive(batch, weak) => weak \in SurfaceImages
        /\ weak \notin SurfaceImages => upgrade(batch, weak) = <<>>

\* no construction was attempted twice
TriedOnce(tried) ==
    \A j, k \in 1..Len(tried) : tried[j] = tried[k] => j = k

\* C15: when a construction inside commands (framebuffer, descriptor buffer,
\* command buffer, a drawable's commands, the final build) runs out of memory,
\* commands returns the error after exactly one attempt of it: the failing
\* construction is the last one attempted, none was attempted twice, no
\* command buffer or upload chain is returned, and the frame's chain is left
\* as it was. A call returns the error in no other case.
C15_OomPropagation ==
    ev.op = "commands" =>
        /\ ev.fail # "none" =>
              /\ ev.ret = "Oom"
              /\ ev.tried # <<>> /\ ev.tried[Len(ev.tried)][1] = ev.fail
              /\ ev.cmd = <<>> /\ ev.upload = <<>>
              /\ future = Pre.future /\ previous_frame_end = Pre.previous_frame_end
              /\ pc # "crashed" /\ pc # "finish"
        /\ TriedOnce(ev.tried)
        /\ ev.ret = "Oom" => ev.fail # "none"
        /\ ev.ret = "Ok" => ev.cmd # <<>> /\ ev.tried[Len(ev.tried)] = <<"build", 0>>

\* inside get_commands, a miss whose descriptor was built fails in the
\* command buffer allocation
C15_Witness ==
    /\ ev.op = "commands" /\ ev.fail = "cb" /\ ~ev.hit /\ ev.descAlloc
    /\ pc = "build" /\ Len(ev.tried) = 3

\* C16: the flag is cleared only by a present call that attempts a recreation
\* in the same call; a present call that finds the flag clear leaves swapchain
\* and images unchanged; a Resized event for the surface sets the flag, so the
\* next present call after it finds the flag set and attempts a recreation.
C16_NoLostResize ==
    ev.op # "none" =>
        /\ (Pre.resized /\ ~resized) =>
              ev.stage = "begin" /\ ev.recreate = "Ok"
        /\ (ev.stage = "begin" /\ Pre.resized) =>
              ev.recreate \in {"Ok", "UnsupportedDimensions"}
        /\ (ev.stage = "begin" /\ ~Pre.resized) =>
              /\ ev.recreate = "none"
              /\ swapchain = Pre.swapchain /\ images = Pre.images
        /\ (IsPollEvents(ev) /\ ev.event = "Resized" /\ ev.window = "win"
                /\ ev.ret = "Ok") => resized
        /\ ev.stage # "begin" => swapchain = Pre.swapchain /\ images = Pre.images

\* a Resized event arrived while a frame was being built; the frame was
\* submitted and the next present call recreated the swapchain
C16_Witness ==
    /\ ev.stage = "begin" /\ Pre.resized /\ ev.recreate = "Ok" /\ ~resized
    /\ frame >= 1 /\ ~Pre.degraded

\* the present call went as far as invoking get_commands
Invoked == ev.op = "get_commands"

\* what C17 says of the invocation: it happens in a present call exactly when
\* recreation (if attempted) and acquisition succeeded, with the acquired slot
\* and the pending chain joined with the acquisition future
InvocationProtocol ==
    /\ Invoked => ev.stage = "begin"
    /\ ev.stage = "begin" =>
          /\ Invoked <=> (ev.recreate \in {"none", "Ok"} /\ ev.acquire = "Ok")
          /\ ~Invoked => pc = "idle" /\ ev.op = "present"
    /\ Invoked =>
          LET acquire_future == Tok("acq", <<frame + 1>>) IN
          /\ pc = "build" /\ image_num = ev.acquired /\ image_num \in Slots
          /\ future = IF Pre.previous_frame_end # <<>>
                       THEN Join(Pre.previous_frame_end[1], acquire_future)
                       ELSE acquire_future
          /\ previous_frame_end = <<>>
    \* get_commands is left only by the end of that present call
    /\ (ev.op # "none" /\ Pre.future # NoFuture /\ pc = "idle") => ev.stage = "end"

\* C17 as stated: the protocol, and the pending chain of the surface is empty
\* as long as get_commands runs.
C17_Original ==
    /\ InvocationProtocol
    /\ pc \in {"build", "finish"} => previous_frame_end = <<>>

\* C17 amended: the protocol; the pending chain is empty when get_commands is
\* invoked, and while it runs it holds only what get_commands itself has
\* handed to join_future.
C17_BuildFrameProtocol ==
    /\ InvocationProtocol
    /\ (pc \in {"build", "finish"} /\ previous_frame_end # <<>>) =>
          OnlyExternal(previous_frame_end[1])

\* get_commands invoked after a recreation with the chain of the last frame
C17_Witness ==
    /\ Invoked /\ ev.recreate = "Ok" /\ image_num = NumImages
    /\ Pre.previous_frame_end # <<>> /\ Pre.previous_frame_end[1].kind = "fence"

\* the call handed the descriptor to at least one drawable
HandedToDrawables == ev.op = "commands" /\ ev.drawn > 0

\* C18: whenever commands hands the descriptor to drawables, the width and
\* height in the descriptor are the dimensions of the framebuffer used for
\* the call.
C18_Original ==
    HandedToDrawables => batch.target_desc.dim = ev.fb[1].dim

\* the same for the calls before which no descriptor construction has failed
\* since the framebuffer of the slot was stored
C18_WhenDescriptorBuilt ==
    (HandedToDrawables /\ batch.target_desc.id[1] = ev.fb[1].id[1]) =>
        batch.target_desc.dim = ev.fb[1].dim

\* the operations of the chain, if any
OpsOf(c) == IF c = <<>> THEN {} ELSE Ops(c[1])

\* the descriptor built by SpriteBatch::new, whose upload chain went to the
\* caller of new
InitialDesc == <<0, 0, 0>>

\* C19: whenever a frame is submitted whose commands reference the batch's
\* current descriptor, the upload chain produced when that descriptor was
\* built is part of the chain of that frame or of an earlier submitted frame
\* (said here of the descriptors that commands builds).
C19_Original ==
    (Submitted(ev) /\ Pre.future.kind = "exec" /\ Pre.future.n = batch.target_desc.id
        /\ batch.target_desc.id # InitialDesc) =>
        <<"upload", batch.target_desc.id>>
            \in OpsOf(previous_frame_end) \cup OpsOf(Pre.lastStored)

\* the chains handed to join_future so far
HandedChains == {Tok("ext", <<k>>) : k \in 1..nextExt}

\* chain c is part of the chain in the slot
PartOf(c, slot) == slot # <<>> /\ Contains(slot[1], c)

\* C20: a chain handed to join_future is part of the pending chain from then
\* on, until a present call takes the pending chain into the chain of its
\* frame; also when join_future is called from inside get_commands.
C20_Original ==
    ev.op # "none" =>
        /\ ev.op = "join_future" =>
              PartOf(Tok("ext", <<nextExt>>), previous_frame_end)
        /\ \A c \in HandedChains :
              PartOf(c, Pre.previous_frame_end) =>
                  \/ PartOf(c, previous_frame_end)
                  \/ Invoked /\ Contains(future, c)

\* the same for the chains handed to join_future outside get_commands
C20_OutsideGetCommands ==
    (ev.op # "none" /\ ~(ev.stage = "end" /\ ev.flush = "Ok")) => C20_Original

\* C21: handling a Resized event for window w never aborts: the entry of w is
\* in the tracking table whenever a Resized event for w is processed, also
\* when the event comes after a Closed event for w.
C21_Original ==
    (IsPollEvents(ev) /\ ev.event = "Resized") =>
        /\ ev.window \in Pre.tracking
        /\ ev.ret = "Ok" /\ pc # "crashed"

\* what the call of thread t found in the cache when it looked
CachedAt(c) == c.cache0[1][c.key]
WasLive(c) == CachedAt(c) # <<>> /\ CachedAt(c)[1] \in c.live0

\* every finished get_font call did what its cache entry called for
CallsAsCached ==
    \A t \in Threads : th[t].pc = "done" =>
        LET c == th[t] IN
        IF WasLive(c)
        THEN c.ok /\ c.ret = CachedAt(c) /\ ~c.loaded /\ c.cache1 = c.cache0
        ELSE /\ c.loaded
             /\ IF c.ok
                THEN /\ c.ret # <<>> /\ c.ret[1].key = c.key
                     /\ c.ret[1] \notin c.live0
                     /\ \A k \in Keys : c.cache0[1][k] # c.ret
                     /\ c.cache1[1] = [c.cache0[1] EXCEPT ![c.key] = c.ret]
                ELSE c.ret = <<>> /\ c.cache1 = c.cache0

\* C22: under every interleaving of get_font calls of several threads, at
\* most one live Font exists per (path, scale) key; a call whose cached font
\* is alive returns that font without loading, a call whose cached font is
\* dead or absent loads a new one and caches it, and a failed load leaves the
\* cache unchanged and returns the error.
C22_FontCacheSharing ==
    /\ \A f \in LiveFonts : \A g \in LiveFonts : f.key = g.key => f = g
    /\ CallsAsCached

\* a call has returned the font another thread owns, while that thread is
\* waiting for the mutex in a call of its own
C22_Witness ==
    \E t \in Threads : \E u \in Threads \ {t} :
        /\ th[t].pc = "done" /\ WasLive(th[t])
        /\ th[t].ret[1] \in held[u] /\ th[u].pc = "lock"

====
